---------------------------- MODULE Spec2Model ----------------------------
(***************************************************************************)
(* go-tdag: a dependency graph of test nodes (TDag) that is built with     *)
(* AddNode / AddEdge / Setup / TearDown / BeforeEach / AfterEach and then  *)
(* executed wave by wave with RunTests (every node) or RunTo (the closure  *)
(* of one target).                                                         *)
(*                                                                         *)
(* A node object is its index in Nodes; Nodes[i] is its identifier.  An    *)
(* edge holds two node pointers that the code only ever reads through .ID, *)
(* so an edge is the pair of identifiers.  A hook list holds functions;    *)
(* the k-th registered hook is the number k, so a list is its length.      *)
(***************************************************************************)
EXTENDS Integers, Sequences, FiniteSets, TLC

\* ------------------------------------------------------------------ bounds
NumIDs == 3        \* identifiers are 1..NumIDs
MaxNodes == 3      \* AddNode calls
MaxEdges == 3      \* stored edges
MaxTargets == 2    \* targets of one AddEdge call
MaxHooks == 2      \* hook registrations, all four kinds together
MaxFailures == 1   \* node callbacks that report a failure in one run
NumCallers == 2    \* goroutines that call the store at the same time
MaxOps == 2        \* store calls of one goroutine

IDs == 1..NumIDs

VARIABLES
    Nodes,          \* TDag.Nodes: sequence of identifiers, one per node object
    Edges,          \* TDag.Edges: sequence of [Left, Right]
    SetupFns,       \* number of registered setup hooks
    TearDownFns,    \* number of registered teardown hooks
    BeforeEachFns,  \* number of registered before-each hooks
    AfterEachFns,   \* number of registered after-each hooks
    items,          \* TStore.items of Ctx.Store: key -> value, absent keys not in DOMAIN
    result,         \* what the most recent call returned
    run,            \* the run in progress: [mode, target]
    pc,             \* where the run's own goroutine is
    requiredNodes,  \* the eligible identifiers of the run
    inDegree,       \* run-local map identifier -> count
    completed,      \* run-local set of identifiers marked completed
    hookIdx,        \* hooks already invoked by the current setup / teardown loop
    g,              \* node object -> position of its wave goroutine
    ran,            \* history: node object -> number of invocations of n.Fn
    errored,        \* history: node objects whose callback reported a failure and returned
    aborted,        \* history: node objects whose callback stopped with FailNow
    log,            \* history: node object -> the events of its latest execution, in order
    wave,           \* history: number of waves launched
    setupCalls,     \* history: setup hooks invoked, in order
    tearDownCalls,  \* history: teardown hooks invoked, in order
    completedMux,   \* run-local mutex: 0 when free, else the node object whose goroutine holds it
    mu,             \* TStore.mu: 0 when free, else the calling goroutine that holds it
    call,           \* calling goroutine -> its store call in progress and the calls it has made
    lin,            \* history: the store calls in the order of their critical sections
    dagItems,       \* Store.items of the generic Dag's store
    dagGot          \* what the most recent Get of the generic Dag's store returned

graph == <<Nodes, Edges>>
hooks == <<SetupFns, TearDownFns, BeforeEachFns, AfterEachFns>>
local == <<run, pc, requiredNodes, inDegree, completed, hookIdx, g, completedMux>>
hist  == <<ran, errored, aborted, log, wave, setupCalls, tearDownCalls>>
stores == <<mu, call, lin, dagItems, dagGot>>
vars  == <<graph, hooks, items, stores, result, local, hist>>

\* ------------------------------------------------------------- graph model
NodeIDs(N) == {N[i] : i \in DOMAIN N}
EdgeSet(E) == {E[k] : k \in DOMAIN E}

\* findNodeByID with the nil result lost: an unknown identifier resolves to the first node
findNodeByID_NeverNil(N, id) ==
    IF \E i \in DOMAIN N : N[i] = id
    THEN CHOOSE i \in DOMAIN N : N[i] = id /\ \A j \in 1..(i - 1) : N[j] # id
    ELSE IF N # <<>> THEN 1 ELSE 0

\* findNodeByID: the first node object with the identifier, 0 for nil
findNodeByID(N, id) ==
    IF \E i \in DOMAIN N : N[i] = id
    THEN CHOOSE i \in DOMAIN N : N[i] = id /\ \A j \in 1..(i - 1) : N[j] # id
    ELSE 0

\* detectCycle: depth-first walk from start along stored edges, in edge order;
\* visited is the map passed by reference, returned with the answer.
RECURSIVE detectCycle(_, _, _, _)
RECURSIVE detectCycleLoop(_, _, _, _, _)
detectCycleLoop(E, start, target, visited, k) ==
    IF k > Len(E) THEN [found |-> FALSE, visited |-> visited \ {start}]
    ELSE IF E[k].Left = start /\ E[k].Right \notin visited
         THEN LET r == detectCycle(E, E[k].Right, target, visited)
              IN  IF r.found THEN r
                  ELSE detectCycleLoop(E, start, target, r.visited, k + 1)
         ELSE detectCycleLoop(E, start, target, visited, k + 1)

detectCycle(E, start, target, visited) ==
    IF start = target THEN [found |-> TRUE, visited |-> visited]
    ELSE detectCycleLoop(E, start, target, visited \cup {start}, 1)

\* the cycle check without the test start.ID == target.ID on its first call
createsCycle_NoSelf(E, from, to) == from # to /\ detectCycle(E, from, to, {}).found

\* the cycle check that walks from to and looks for from
createsCycle_FromTarget(E, from, to) == detectCycle(E, to, from, {}).found

createsCycle(E, from, to) == detectCycle(E, from, to, {}).found

ErrNil == "nil"
ErrUnknown == "node does not exist"
ErrCycle == "would create a cycle"

\* The loop of AddEdge over its targets, from target k on; edges is the
\* slice built so far.  An error returns nil for the slice and keeps d.Edges.
RECURSIVE AddEdgeLoop(_, _, _, _, _, _)
AddEdgeLoop(N, E, from, to, k, edges) ==
    IF k > Len(to) THEN [Edges |-> E, edges |-> edges, err |-> ErrNil]
    ELSE IF findNodeByID(N, to[k]) = 0
         THEN [Edges |-> E, edges |-> <<>>, err |-> ErrUnknown]
    ELSE IF createsCycle(E, from, to[k])
         THEN [Edges |-> E, edges |-> <<>>, err |-> ErrCycle]
    ELSE LET edge == [Left |-> from, Right |-> to[k]]
         IN  AddEdgeLoop(N, Append(E, edge), from, to, k + 1, Append(edges, edge))

\* AddEdge without the lookup of from
AddEdgeResult_NoFromCheck(N, E, from, to) == AddEdgeLoop(N, E, from, to, 1, <<>>)

\* AddEdge that takes back the edges of a call that fails
AddEdgeResult_Rollback(N, E, from, to) ==
    IF findNodeByID(N, from) = 0
    THEN [Edges |-> E, edges |-> <<>>, err |-> ErrUnknown]
    ELSE LET r == AddEdgeLoop(N, E, from, to, 1, <<>>)
         IN  IF r.err = ErrNil THEN r ELSE [r EXCEPT !.Edges = E]

AddEdgeResult(N, E, from, to) ==
    IF findNodeByID(N, from) = 0
    THEN [Edges |-> E, edges |-> <<>>, err |-> ErrUnknown]
    ELSE AddEdgeLoop(N, E, from, to, 1, <<>>)

\* A call's record: the operation, what it returned or reported and, for
\* AddEdge, the number of edges it appended to d.Edges.
Void(op) == [op |-> op, err |-> ErrNil, edges |-> <<>>, appended |-> 0, remaining |-> {}]

\* ------------------------------------------------------------------- store
Keys == {"email", "setup"}
Nil == "nil"
\* interface{} values: nil, false and a value that is neither
Values == {Nil, "false", "x"}
Callers == 1..NumCallers
ErrKeyNotFound == "key not found"

\* a Set that keeps the value a key already has
StoreSet_KeepFirst(s, key, value) ==
    [k \in DOMAIN s \cup {key} |-> IF k \in DOMAIN s THEN s[k] ELSE value]

\* s.items[key] = value
StoreSet(s, key, value) == [k \in DOMAIN s \cup {key} |-> IF k = key THEN value ELSE s[k]]

\* TStore.Get between Lock and the deferred Unlock: value, ok := s.items[key]
TStoreGet(s, key) ==
    IF key \in DOMAIN s
    THEN [value |-> s[key], err |-> ErrNil]
    ELSE [value |-> Nil, err |-> ErrKeyNotFound]

\* Store.Get of the generic Dag: s.items[key], the zero value for a missing
\* key, and no error result
DagStoreGet(s, key) ==
    [value |-> IF key \in DOMAIN s THEN s[key] ELSE Nil, err |-> ErrNil]

NoCall == [at |-> "idle", op |-> "none", key |-> "", value |-> Nil, n |-> 0]

\* ------------------------------------------------------------------- Init
Init ==
    /\ Nodes = <<>>
    /\ Edges = <<>>
    /\ SetupFns = 0
    /\ TearDownFns = 0
    /\ BeforeEachFns = 0
    /\ AfterEachFns = 0
    /\ items = <<>>
    /\ result = Void("NewTDag")
    /\ run = [mode |-> "none", target |-> 0]
    /\ pc = "build"
    /\ requiredNodes = {}
    /\ inDegree = <<>>
    /\ completed = {}
    /\ hookIdx = 0
    /\ g = <<>>
    /\ ran = <<>>
    /\ errored = {}
    /\ aborted = {}
    /\ log = <<>>
    /\ wave = 0
    /\ setupCalls = <<>>
    /\ tearDownCalls = <<>>
    /\ completedMux = 0
    /\ mu = 0
    /\ call = [c \in Callers |-> NoCall]
    /\ lin = <<>>
    /\ dagItems = <<>>
    /\ dagGot = [op |-> "none", key |-> "", value |-> Nil, err |-> ErrNil, present |-> FALSE]

\* ----------------------------------------------------------- construction
\* Identifiers are interchangeable, so a call registers either an identifier
\* already in use (a duplicate) or the least unused one.
AddNode(id) ==
    /\ pc = "build"
    /\ Len(Nodes) < MaxNodes
    /\ id <= Cardinality(NodeIDs(Nodes)) + 1
    /\ Nodes' = Append(Nodes, id)
    /\ result' = Void("AddNode")
    /\ UNCHANGED <<Edges, hooks, items, stores, local, hist>>

AddEdge(from, to) ==
    /\ pc = "build"
    /\ LET r == AddEdgeResult(Nodes, Edges, from, to)
       IN  /\ Len(r.Edges) <= MaxEdges
           /\ Edges' = r.Edges
           /\ result' = [Void("AddEdge") EXCEPT !.err = r.err, !.edges = r.edges,
                                                !.appended = Len(r.Edges) - Len(Edges)]
    /\ UNCHANGED <<Nodes, hooks, items, stores, local, hist>>

HookCount == SetupFns + TearDownFns + BeforeEachFns + AfterEachFns

Setup ==
    /\ pc = "build" /\ HookCount < MaxHooks
    /\ SetupFns' = SetupFns + 1
    /\ result' = Void("Setup")
    /\ UNCHANGED <<graph, TearDownFns, BeforeEachFns, AfterEachFns, items, stores, local, hist>>

TearDown ==
    /\ pc = "build" /\ HookCount < MaxHooks
    /\ TearDownFns' = TearDownFns + 1
    /\ result' = Void("TearDown")
    /\ UNCHANGED <<graph, SetupFns, BeforeEachFns, AfterEachFns, items, stores, local, hist>>

BeforeEach ==
    /\ pc = "build" /\ HookCount < MaxHooks
    /\ BeforeEachFns' = BeforeEachFns + 1
    /\ result' = Void("BeforeEach")
    /\ UNCHANGED <<graph, SetupFns, TearDownFns, AfterEachFns, items, stores, local, hist>>

AfterEach ==
    /\ pc = "build" /\ HookCount < MaxHooks
    /\ AfterEachFns' = AfterEachFns + 1
    /\ result' = Void("AfterEach")
    /\ UNCHANGED <<graph, SetupFns, TearDownFns, BeforeEachFns, items, stores, local, hist>>

Targets == UNION {[1..n -> IDs] : n \in 0..MaxTargets}

Build ==
    \/ \E id \in IDs : AddNode(id)
    \/ \E from \in IDs, to \in Targets : AddEdge(from, to)
    \/ Setup
    \/ TearDown
    \/ BeforeEach
    \/ AfterEach

\* --------------------------------------------------------------- scheduler
ErrNoNode == "Node does not exist"
ErrDeadlock == "Dependency cycle detected"

\* collectDependencies that stops at the direct dependencies
collectDependencies_DirectOnly(E, nodeID, collected) ==
    collected \cup {nodeID} \cup {E[k].Left : k \in {x \in DOMAIN E : E[x].Right = nodeID}}

\* collectDependencies: marks nodeID, then recurses into the left end of every
\* edge into nodeID that is not yet collected, in edge order.
RECURSIVE collectDependencies(_, _, _)
RECURSIVE collectLoop(_, _, _, _)
collectLoop(E, nodeID, collected, k) ==
    IF k > Len(E) THEN collected
    ELSE IF E[k].Right = nodeID /\ E[k].Left \notin collected
         THEN collectLoop(E, nodeID, collectDependencies(E, E[k].Left, collected), k + 1)
         ELSE collectLoop(E, nodeID, collected, k + 1)

collectDependencies(E, nodeID, collected) ==
    collectLoop(E, nodeID, collected \cup {nodeID}, 1)

\* The edges a run counts: all of them in RunTests (req is every registered
\* identifier), those with both ends required in RunTo.
counted(E, req) == {k \in DOMAIN E : E[k].Left \in req /\ E[k].Right \in req}

\* the scan without its in-degree test
available_NoDegree(N, req, comp, deg) ==
    {i \in DOMAIN N : N[i] \in req /\ N[i] \notin comp}

\* the check after an empty scan that never finds a node left over
remaining_None(req, comp) == {}

\* the bookkeeping without the decrement of the dependents
decrement_None(E, req, deg, id) == deg

\* the initialisation that leaves every counter at zero
inDegreeInit_Zero(N, E, req) == [id \in NodeIDs(N) \cap req |-> 0]

\* inDegree after the two initialisation loops
inDegreeInit(N, E, req) ==
    [id \in NodeIDs(N) \cap req |-> Cardinality({k \in counted(E, req) : E[k].Right = id})]

\* outEdges[id], as the positions in Edges of the edges it was built from
outEdges(E, req, id) == {k \in counted(E, req) : E[k].Left = id}

\* the scan at the top of the loop: node objects that are required, not
\* completed and of in-degree zero
available(N, req, comp, deg) ==
    {i \in DOMAIN N : N[i] \in req /\ N[i] \notin comp /\ deg[N[i]] = 0}

\* the report that lists every eligible identifier
remaining_All(req, comp) == req

\* the identifiers reported when nothing is available
remaining(req, comp) == {id \in req : id \notin comp}

\* the bookkeeping that marks nothing
markCompleted_None(comp, id) == comp

\* the bookkeeping under completedMux after a node's execution
markCompleted(comp, id) == comp \cup {id}
decrement(E, req, deg, id) ==
    [d \in DOMAIN deg |->
        deg[d] - Cardinality({k \in outEdges(E, req, id) : E[k].Right = d})]

Idle == [at |-> "idle", k |-> 0]
Ended == [at |-> "end", k |-> 0]
\* where a goroutine goes after its before-each hooks / callback
AtFn == [at |-> "fn", k |-> 0]
AfterFn == IF AfterEachFns > 0 THEN [at |-> "after", k |-> 1] ELSE [at |-> "mark", k |-> 0]
Spawned == IF BeforeEachFns > 0 THEN [at |-> "before", k |-> 1] ELSE AtFn

StartLocals(req) ==
    /\ requiredNodes' = req
    /\ inDegree' = inDegreeInit(Nodes, Edges, req)
    /\ completed' = {}
    /\ hookIdx' = 0
    /\ g' = [i \in DOMAIN Nodes |-> Idle]
    /\ ran' = [i \in DOMAIN Nodes |-> 0]
    /\ log' = [i \in DOMAIN Nodes |-> <<>>]

\* RunTests up to the head of its loop; it has no setup loop.
RunTests ==
    /\ pc = "build"
    /\ run' = [mode |-> "RunTests", target |-> 0]
    /\ StartLocals(NodeIDs(Nodes))
    /\ pc' = "scan"
    /\ result' = Void("RunTests")
    /\ UNCHANGED <<graph, hooks, items, stores, completedMux, errored, aborted, wave, setupCalls, tearDownCalls>>

\* RunTo up to its setup loop, or to t.Fatalf for an unknown target.
RunTo(id) ==
    /\ pc = "build"
    /\ run' = [mode |-> "RunTo", target |-> id]
    /\ IF findNodeByID(Nodes, id) = 0
       THEN /\ pc' = "fatal"
            /\ result' = [Void("RunTo") EXCEPT !.err = ErrNoNode]
            /\ UNCHANGED <<requiredNodes, inDegree, completed, hookIdx, g, ran, log>>
       ELSE /\ StartLocals(collectDependencies(Edges, id, {}))
            /\ pc' = IF SetupFns > 0 THEN "setup" ELSE "scan"
            /\ result' = Void("RunTo")
    /\ UNCHANGED <<graph, hooks, items, stores, completedMux, errored, aborted, wave, setupCalls, tearDownCalls>>

\* One iteration of the setup loop of RunTo.  A setup hook publishes a value
\* in the store, as the hook of the readme does.
SetupStep ==
    /\ pc = "setup"
    /\ hookIdx < SetupFns
    /\ setupCalls' = Append(setupCalls, hookIdx + 1)
    /\ items' = StoreSet(items, "email", hookIdx + 1)
    /\ hookIdx' = hookIdx + 1
    /\ pc' = IF hookIdx + 1 = SetupFns THEN "scan" ELSE "setup"
    /\ UNCHANGED <<graph, hooks, stores, completedMux, result, run, requiredNodes, inDegree,
                   completed, g, ran, errored, aborted, log, wave, tearDownCalls>>

WaveDone == pc = "wave" /\ \A i \in DOMAIN g : g[i].at \in {"idle", "end"}

\* The head of the loop, entered first or after wg.Wait: scan, then either
\* launch a wave, stop with t.Fatalf, or leave the loop.
Scan ==
    /\ pc = "scan" \/ WaveDone
    /\ completedMux = 0
    /\ LET av == available(Nodes, requiredNodes, completed, inDegree)
           rem == remaining(requiredNodes, completed)
       IN  IF av # {}
           THEN /\ g' = [i \in DOMAIN Nodes |-> IF i \in av THEN Spawned ELSE Idle]
                /\ log' = [i \in DOMAIN Nodes |-> IF i \in av THEN <<>> ELSE log[i]]
                /\ wave' = wave + 1
                /\ pc' = "wave"
                /\ UNCHANGED <<result, hookIdx>>
           ELSE /\ g' = [i \in DOMAIN Nodes |-> Idle]
                /\ UNCHANGED <<log, wave>>
                /\ IF rem # {}
                   THEN /\ pc' = "fatal"
                        /\ result' = [result EXCEPT !.err = ErrDeadlock, !.remaining = rem]
                        /\ UNCHANGED hookIdx
                   ELSE /\ pc' = IF TearDownFns > 0 THEN "teardown" ELSE "done"
                        /\ hookIdx' = 0
                        /\ UNCHANGED result
    /\ UNCHANGED <<graph, hooks, items, stores, completedMux, run, requiredNodes, inDegree, completed,
                   ran, errored, aborted, setupCalls, tearDownCalls>>

\* A wave goroutine invokes its next before-each hook.
BeforeEachStep(i) ==
    /\ pc = "wave" /\ g[i].at = "before"
    /\ log' = [log EXCEPT ![i] = Append(@, <<"before", g[i].k>>)]
    /\ g' = [g EXCEPT ![i] = IF g[i].k < BeforeEachFns
                              THEN [at |-> "before", k |-> g[i].k + 1] ELSE AtFn]
    /\ UNCHANGED <<graph, hooks, items, stores, completedMux, result, run, pc, requiredNodes, inDegree,
                   completed, hookIdx, ran, errored, aborted, wave, setupCalls, tearDownCalls>>

\* n.Fn is entered.
FnCall(i) ==
    /\ pc = "wave" /\ g[i].at = "fn"
    /\ ran' = [ran EXCEPT ![i] = @ + 1]
    /\ log' = [log EXCEPT ![i] = Append(@, <<"fn", 0>>)]
    /\ g' = [g EXCEPT ![i] = [at |-> "infn", k |-> 0]]
    /\ UNCHANGED <<graph, hooks, items, stores, completedMux, result, run, pc, requiredNodes, inDegree,
                   completed, hookIdx, errored, aborted, wave, setupCalls, tearDownCalls>>

MayFail(i) == i \notin errored \cup aborted /\ Cardinality(errored \cup aborted) < MaxFailures

\* n.Fn returns, having passed or having reported a failure (t.Errorf, assert).
FnReturn(i, ok) ==
    /\ pc = "wave" /\ g[i].at = "infn"
    /\ ok \/ MayFail(i)
    /\ errored' = IF ok THEN errored ELSE errored \cup {i}
    /\ g' = [g EXCEPT ![i] = AfterFn]
    /\ UNCHANGED <<graph, hooks, items, stores, completedMux, result, run, pc, requiredNodes, inDegree,
                   completed, hookIdx, ran, aborted, log, wave, setupCalls, tearDownCalls>>

\* n.Fn stops with t.FailNow / t.Fatal: runtime.Goexit unwinds the goroutine,
\* running only the deferred wg.Done.
FnAbort(i) ==
    /\ pc = "wave" /\ g[i].at = "infn"
    /\ MayFail(i)
    /\ aborted' = aborted \cup {i}
    /\ g' = [g EXCEPT ![i] = Ended]
    /\ UNCHANGED <<graph, hooks, items, stores, completedMux, result, run, pc, requiredNodes, inDegree,
                   completed, hookIdx, ran, errored, log, wave, setupCalls, tearDownCalls>>

\* A wave goroutine invokes its next after-each hook.
AfterEachStep(i) ==
    /\ pc = "wave" /\ g[i].at = "after"
    /\ log' = [log EXCEPT ![i] = Append(@, <<"after", g[i].k>>)]
    /\ g' = [g EXCEPT ![i] = IF g[i].k < AfterEachFns
                              THEN [at |-> "after", k |-> g[i].k + 1]
                              ELSE [at |-> "mark", k |-> 0]]
    /\ UNCHANGED <<graph, hooks, items, stores, completedMux, result, run, pc, requiredNodes, inDegree,
                   completed, hookIdx, ran, errored, aborted, wave, setupCalls, tearDownCalls>>

\* completedMux.Lock() that takes no lock
Lock_Noop(mux, i) == mux

\* completedMux.Lock() and completedMux.Unlock(), by the goroutine of node object i
Lock(mux, i) == i
Unlock(mux) == 0

\* completedMux.Lock() at the end of a node's execution: blocks while the
\* mutex is held.
LockStep(i) ==
    /\ pc = "wave" /\ g[i].at = "mark"
    /\ completedMux = 0
    /\ completedMux' = Lock(completedMux, i)
    /\ g' = [g EXCEPT ![i] = [at |-> "locked", k |-> 0]]
    /\ UNCHANGED <<graph, hooks, items, stores, result, run, pc, requiredNodes, inDegree,
                   completed, hookIdx, ran, errored, aborted, log, wave, setupCalls,
                   tearDownCalls>>

\* The critical section of completedMux at the end of a node's execution,
\* up to its Unlock.
Mark(i) ==
    /\ pc = "wave" /\ g[i].at = "locked"
    /\ completed' = markCompleted(completed, Nodes[i])
    /\ inDegree' = decrement(Edges, requiredNodes, inDegree, Nodes[i])
    /\ log' = [log EXCEPT ![i] = Append(@, <<"completed", 0>>)]
    /\ completedMux' = Unlock(completedMux)
    /\ g' = [g EXCEPT ![i] = Ended]
    /\ UNCHANGED <<graph, hooks, items, stores, result, run, pc, requiredNodes,
                   hookIdx, ran, errored, aborted, wave, setupCalls, tearDownCalls>>

\* One iteration of the teardown loop after the scheduling loop.
TearDownStep ==
    /\ pc = "teardown"
    /\ hookIdx < TearDownFns
    /\ tearDownCalls' = Append(tearDownCalls, hookIdx + 1)
    /\ hookIdx' = hookIdx + 1
    /\ pc' = IF hookIdx + 1 = TearDownFns THEN "done" ELSE "teardown"
    /\ UNCHANGED <<graph, hooks, items, stores, completedMux, result, run, requiredNodes, inDegree, completed, g,
                   ran, errored, aborted, log, wave, setupCalls>>

Node(i) ==
    \/ BeforeEachStep(i)
    \/ FnCall(i)
    \/ \E ok \in BOOLEAN : FnReturn(i, ok)
    \/ FnAbort(i)
    \/ AfterEachStep(i)
    \/ LockStep(i)
    \/ Mark(i)

Run ==
    \/ RunTests
    \/ \E id \in IDs : RunTo(id)
    \/ SetupStep
    \/ Scan
    \/ \E i \in DOMAIN g : Node(i)
    \/ TearDownStep

Next == Build \/ Run

Spec == Init /\ [][Next]_vars

\* The steps of a run in progress.  The runtime keeps scheduling the run's
\* own goroutine and the goroutines of a wave for as long as one of them can
\* take a step, and hooks and callbacks end (by return or by FailNow).
RunStep ==
    \/ SetupStep
    \/ Scan
    \/ \E i \in DOMAIN g : Node(i)
    \/ TearDownStep

SpecFair == Spec /\ WF_vars(RunStep)

\* ------------------------------------------------- the store, called concurrently
tdag == <<graph, hooks, result, local, hist>>

\* A goroutine calls Set(key, value): it is about to take s.mu.
SetCall(c, key, value) ==
    /\ call[c].at = "idle" /\ call[c].n < MaxOps
    /\ call' = [call EXCEPT ![c] = [@ EXCEPT !.at = "lock", !.op = "Set",
                                               !.key = key, !.value = value]]
    /\ UNCHANGED <<tdag, items, mu, lin, dagItems, dagGot>>

\* A goroutine calls Get(key): it is about to take s.mu.
GetCall(c, key) ==
    /\ call[c].at = "idle" /\ call[c].n < MaxOps
    /\ call' = [call EXCEPT ![c] = [@ EXCEPT !.at = "lock", !.op = "Get",
                                               !.key = key, !.value = Nil]]
    /\ UNCHANGED <<tdag, items, mu, lin, dagItems, dagGot>>

\* s.mu.Lock(): blocks while another goroutine holds the mutex.
MuLock(c) ==
    /\ call[c].at = "lock"
    /\ mu = 0
    /\ mu' = c
    /\ call' = [call EXCEPT ![c].at = "held"]
    /\ UNCHANGED <<tdag, items, lin, dagItems, dagGot>>

\* The body of Set under the mutex, the deferred Unlock and the return.
SetBody(c) ==
    /\ call[c].at = "held" /\ call[c].op = "Set" /\ mu = c
    /\ items' = StoreSet(items, call[c].key, call[c].value)
    /\ lin' = Append(lin, [c |-> c, n |-> call[c].n + 1, op |-> "Set", key |-> call[c].key,
                           value |-> call[c].value, err |-> ErrNil])
    /\ mu' = 0
    /\ call' = [call EXCEPT ![c] = [@ EXCEPT !.at = "idle", !.n = @ + 1]]
    /\ UNCHANGED <<tdag, dagItems, dagGot>>

\* The body of Get under the mutex, the deferred Unlock and the return.
GetBody(c) ==
    /\ call[c].at = "held" /\ call[c].op = "Get" /\ mu = c
    /\ LET r == TStoreGet(items, call[c].key)
       IN  /\ lin' = Append(lin, [c |-> c, n |-> call[c].n + 1, op |-> "Get",
                                  key |-> call[c].key, value |-> r.value, err |-> r.err])
           /\ call' = [call EXCEPT ![c] = [@ EXCEPT !.at = "idle", !.value = r.value,
                                                      !.n = @ + 1]]
    /\ mu' = 0
    /\ UNCHANGED <<tdag, items, dagItems, dagGot>>

NextStore ==
    \/ \E c \in Callers, key \in Keys, value \in Values : SetCall(c, key, value)
    \/ \E c \in Callers, key \in Keys : GetCall(c, key)
    \/ \E c \in Callers : MuLock(c)
    \/ \E c \in Callers : SetBody(c)
    \/ \E c \in Callers : GetBody(c)

SpecStore == Init /\ [][NextStore]_vars

\* ------------------------------------------ the store of the generic Dag
\* Store.Set(key, value)
DagSet(key, value) ==
    /\ dagItems' = StoreSet(dagItems, key, value)
    /\ UNCHANGED <<tdag, items, mu, call, lin, dagGot>>

\* Store.Get(key); present records whether the key had been set
DagGet(key) ==
    /\ LET r == DagStoreGet(dagItems, key)
       IN  dagGot' = [op |-> "Get", key |-> key, value |-> r.value, err |-> r.err,
                      present |-> key \in DOMAIN dagItems]
    /\ UNCHANGED <<tdag, items, mu, call, lin, dagItems>>

NextDagStore ==
    \/ \E key \in Keys, value \in Values : DagSet(key, value)
    \/ \E key \in Keys : DagGet(key)

SpecDagStore == Init /\ [][NextDagStore]_vars

\* ------------------------------------------------- vocabulary of the claims
Seq1(n) == [k \in 1..n |-> k]
Distinct(N) == \A i, j \in DOMAIN N : N[i] = N[j] => i = j
Succ(E, S) == {e.Right : e \in {x \in EdgeSet(E) : x.Left \in S}}
RECURSIVE Closure(_, _)
Closure(E, S) == LET T == S \cup Succ(E, S) IN IF T = S THEN S ELSE Closure(E, T)
\* a non-empty path of stored edges leads from a to b
Path(E, a, b) == b \in Closure(E, Succ(E, {a}))
Acyclic(E) == \A a \in IDs : ~Path(E, a, a)
\* x and every identifier from which x is reachable
Ancestors(E, x) == {x} \cup {a \in IDs : Path(E, a, x)}
Running == run.mode \in {"RunTests", "RunTo"}
Known(id) == id \in NodeIDs(Nodes)
Executing(i) == g[i].at \in {"before", "fn", "infn", "after", "mark", "locked"}
Started(i) == log[i] # <<>> \/ ran[i] > 0
Finished(i) == log[i] # <<>> /\ log[i][Len(log[i])] = <<"completed", 0>> /\ ~Executing(i)
\* the identifiers that must complete before node object i may start
Deps(i) == {e.Left : e \in {x \in EdgeSet(Edges) : x.Right = Nodes[i] /\ x.Left \in requiredNodes}}

\* C1: in RunTests and in RunTo, on a graph with distinct identifiers and no
\* cycle, a node whose execution has begun has every eligible dependency
\* marked completed, with that dependency's own execution finished.
C1_DependenciesFirst ==
    (Running /\ Distinct(Nodes) /\ Acyclic(Edges)) =>
        \A i \in DOMAIN g :
            (Executing(i) \/ Started(i)) =>
                \A d \in Deps(i) :
                    /\ d \in completed
                    /\ \A j \in DOMAIN Nodes : Nodes[j] = d => Finished(j)

\* C1 witness: the last node of a chain of three is inside its callback
C1_Witness ==
    /\ Running /\ Distinct(Nodes) /\ Acyclic(Edges)
    /\ \E i \in DOMAIN g :
          /\ g[i].at = "infn"
          /\ \E d \in Deps(i) : \E j \in DOMAIN Nodes : Nodes[j] = d /\ Deps(j) # {}

\* C2: a full run over a graph with distinct identifiers and no cycle, whose
\* callbacks all return, invokes no callback twice, never stops with the
\* deadlock report, and leaves its loop with every identifier completed and
\* every callback invoked once.
C2_FullRunOnce ==
    (run.mode = "RunTests" /\ Distinct(Nodes) /\ Acyclic(Edges) /\ aborted = {}) =>
        /\ \A i \in DOMAIN ran : ran[i] <= 1
        /\ pc # "fatal"
        /\ pc \in {"teardown", "done"} =>
              /\ completed = NodeIDs(Nodes)
              /\ \A i \in DOMAIN ran : ran[i] = 1

\* C2 witness: a full run of three nodes and two edges has ended
C2_Witness ==
    /\ run.mode = "RunTests" /\ pc = "done"
    /\ Distinct(Nodes) /\ Acyclic(Edges) /\ aborted = {}
    /\ Len(Nodes) = 3 /\ Len(Edges) >= 2
    /\ completed = {1, 2, 3}

\* C3: RunTo(X) with X registered, on a graph without a cycle, invokes only
\* callbacks of the closure of X, none of them twice, and has invoked each
\* of them once when it leaves its loop.
C3_ClosureOnce ==
    (run.mode = "RunTo" /\ Known(run.target) /\ Acyclic(Edges)) =>
        /\ \A i \in DOMAIN ran : ran[i] > 0 => Nodes[i] \in Ancestors(Edges, run.target)
        /\ \A i \in DOMAIN ran : ran[i] <= 1
        /\ pc # "fatal"
        /\ pc \in {"teardown", "done"} =>
              \A i \in DOMAIN ran : Nodes[i] \in Ancestors(Edges, run.target) => ran[i] = 1

\* C4: the stored edges never contain a cycle.
C4_Acyclic == Acyclic(Edges)

\* C5: AddEdge(from, to) between registered nodes, with from reachable from
\* to, returns the cycle error and leaves the edges as they were.
C5_CycleRejected ==
    [][\A from, to \in IDs :
          (AddEdge(from, <<to>>) /\ Known(from) /\ Known(to) /\ Path(Edges, to, from))
              => (result'.err = ErrCycle /\ Edges' = Edges)]_vars

\* C6: AddEdge(from, to) between two registered, distinct nodes, for an edge
\* not yet stored whose insertion leaves the graph without a cycle, appends
\* the edge and returns it.
C6_ForwardEdgeAccepted ==
    [][\A from, to \in IDs :
          LET edge == [Left |-> from, Right |-> to]
          IN  (/\ AddEdge(from, <<to>>)
               /\ Known(from) /\ Known(to) /\ from # to
               /\ edge \notin EdgeSet(Edges)
               /\ Acyclic(Append(Edges, edge)))
                  => (/\ result'.err = ErrNil
                      /\ result'.edges = <<edge>>
                      /\ Edges' = Append(Edges, edge))]_vars

\* C7: in both run modes, once a before-each hook or a node callback has
\* started, every setup hook has been invoked once, in registration order.
C7_SetupFirst ==
    (Running /\ \E i \in DOMAIN log : Started(i)) => setupCalls = Seq1(SetupFns)

\* C8: teardown hooks run only after the loop has ended with every eligible
\* identifier completed, every eligible node started and none executing;
\* they run in registration order, each once by the end of the run.
C8_TearDownLast ==
    /\ (pc = "teardown" \/ pc = "done" \/ tearDownCalls # <<>>) =>
          /\ requiredNodes \subseteq completed
          /\ \A i \in DOMAIN Nodes :
                Nodes[i] \in requiredNodes => (ran[i] >= 1 /\ ~Executing(i))
          /\ \A i \in DOMAIN g : ~Executing(i)
    /\ pc = "teardown" => tearDownCalls = Seq1(hookIdx)
    /\ pc = "done" => tearDownCalls = Seq1(TearDownFns)
    /\ pc \notin {"teardown", "done"} => tearDownCalls = <<>>

\* C8 witness: a run of two dependent nodes has ended after two teardown hooks
C8_Witness ==
    /\ pc = "done" /\ TearDownFns = 2 /\ tearDownCalls = <<1, 2>>
    /\ Len(Nodes) >= 2 /\ Len(Edges) >= 1 /\ wave >= 2

\* C9: a node whose callback failed, aborting or not, is marked completed
\* when its goroutine ends, is not invoked again, and the run does not die.
C9_FailedCompletes ==
    \A i \in errored \cup aborted :
        /\ g[i].at \in {"idle", "end"} => Nodes[i] \in completed
        /\ ran[i] <= 1

\* C10: RunTo with an unregistered identifier stops at once with the
\* unknown-node report: no wave, no callback, no hook, store untouched.
C10_UnknownTarget ==
    (run.mode = "RunTo" /\ ~Known(run.target)) =>
        /\ pc = "fatal" /\ result.err = ErrNoNode
        /\ wave = 0 /\ g = <<>> /\ ran = <<>> /\ log = <<>>
        /\ setupCalls = <<>> /\ tearDownCalls = <<>>
        /\ items = <<>>
        /\ completed = {}

\* C10 witness: RunTo on an unknown identifier of a graph with nodes and a setup hook
C10_Witness ==
    /\ run.mode = "RunTo" /\ ~Known(run.target)
    /\ Nodes # <<>> /\ SetupFns > 0 /\ pc = "fatal"

\* C11: on every graph built, AddEdge(from, to...) returns the unknown-node
\* error when from is not registered, leaving the edges as they were, and
\* when a target it reaches (no earlier target was refused by the cycle
\* check) is not registered; every edge it stores, and every edge stored so
\* far, has both ends registered.
C11_UnknownNode ==
    /\ pc = "build" =>
          \A from \in IDs, to \in Targets :
              LET r == AddEdgeResult(Nodes, Edges, from, to)
              IN  /\ ~Known(from) => (r.err = ErrUnknown /\ r.Edges = Edges)
                  /\ ((\E k \in DOMAIN to : ~Known(to[k])) /\ r.err # ErrCycle)
                        => r.err = ErrUnknown
                  /\ \A e \in EdgeSet(r.Edges) : Known(e.Left) /\ Known(e.Right)
    /\ \A e \in EdgeSet(Edges) : Known(e.Left) /\ Known(e.Right)

\* C11 witness: a call on a graph with edges and an unregistered identifier
\* has returned the unknown-node error
C11_Witness ==
    /\ result.op = "AddEdge" /\ result.err = ErrUnknown
    /\ Edges # <<>> /\ Cardinality(NodeIDs(Nodes)) < NumIDs

\* the edges from -> to[1], ..., from -> to[n]
Fan(from, to, n) == [j \in 1..n |-> [Left |-> from, Right |-> to[j]]]
\* AddEdge refuses the target t of from on the edges E
Refused(E, from, t) == ~Known(t) \/ createsCycle(E, from, t)
\* target i is the first that AddEdge(from, to...) refuses, called on the edges E
FirstRefused(E, from, to, i) ==
    /\ Refused(E \o Fan(from, to, i - 1), from, to[i])
    /\ \A j \in 1..(i - 1) : ~Refused(E \o Fan(from, to, j - 1), from, to[j])

\* C12: on every graph built, when AddEdge(from, t1..tn) with from
\* registered is refused at ti, unknown or rejected by the cycle check, the
\* edges afterwards are the edges before followed by from -> t1 ..
\* from -> t(i-1), and the call returns an error and no edge list.
C12_PartialKept ==
    pc = "build" =>
        \A from \in IDs, to \in Targets :
            Known(from) =>
                LET r == AddEdgeResult(Nodes, Edges, from, to)
                IN  \A i \in DOMAIN to :
                        FirstRefused(Edges, from, to, i) =>
                            /\ r.Edges = Edges \o Fan(from, to, i - 1)
                            /\ r.err \in {ErrUnknown, ErrCycle}
                            /\ r.edges = <<>>

\* C12 witness: a call on a graph with an edge has appended an edge and
\* then failed
C12_Witness ==
    /\ result.op = "AddEdge" /\ result.err # ErrNil
    /\ result.appended >= 1 /\ Len(Edges) >= 2

\* C13: the node list never holds two nodes with the same identifier.
C13_UniqueIDs == Distinct(Nodes)


\* the last Set(key, _) among the first n calls of the history h
LastSet(h, n, key) ==
    LET S == {m \in 1..n : h[m].op = "Set" /\ h[m].key = key}
    IN  IF S = {} THEN [set |-> FALSE, value |-> Nil]
        ELSE [set |-> TRUE, value |-> h[CHOOSE m \in S : \A x \in S : x <= m].value]
\* what Get(key) has to return after the first n calls of the history h
Expected(h, n, key) ==
    IF LastSet(h, n, key).set
    THEN [value |-> LastSet(h, n, key).value, err |-> ErrNil]
    ELSE [value |-> Nil, err |-> ErrKeyNotFound]

\* C14: the concurrent calls of TStore take effect one at a time, each once
\* between its call and its return and in the order each goroutine made
\* them; in that order every Get(k) returns the value of the latest
\* Set(k, _) before it, and the map holds the latest value of every key.
C14_Linearizable ==
    /\ \A n \in DOMAIN lin :
          lin[n].op = "Get" =>
              [value |-> lin[n].value, err |-> lin[n].err] = Expected(lin, n - 1, lin[n].key)
    /\ \A m, n \in DOMAIN lin : (m < n /\ lin[m].c = lin[n].c) => lin[m].n < lin[n].n
    /\ \A c \in Callers :
          /\ Cardinality({n \in DOMAIN lin : lin[n].c = c}) = call[c].n
          /\ call[c].at = "held" <=> mu = c
          /\ (call[c].at = "idle" /\ call[c].op = "Get") =>
                \E n \in DOMAIN lin :
                    lin[n].c = c /\ lin[n].n = call[c].n /\ lin[n].value = call[c].value
    /\ \A key \in Keys :
          /\ key \in DOMAIN items <=> LastSet(lin, Len(lin), key).set
          /\ key \in DOMAIN items => items[key] = LastSet(lin, Len(lin), key).value

\* C14 witness: two goroutines have set the same key to different values,
\* a Get has returned the later value, and a fourth call holds the mutex
C14_Witness ==
    /\ Len(lin) = 3
    /\ lin[1].op = "Set" /\ lin[2].op = "Set" /\ lin[3].op = "Get"
    /\ lin[1].key = lin[2].key /\ lin[2].key = lin[3].key
    /\ lin[1].c # lin[2].c /\ lin[1].value # lin[2].value
    /\ lin[3].value = lin[2].value /\ lin[3].err = ErrNil
    /\ mu # 0

\* C15: a Get of a key that was never set returns the key-not-found error,
\* a Get of a key that was set returns its value, nil and false included,
\* and no error; in the TStore and in the store of the generic Dag.
C15_MissingKey ==
    /\ \A n \in DOMAIN lin :
          lin[n].op = "Get" =>
              /\ lin[n].err = ErrKeyNotFound <=> ~LastSet(lin, n - 1, lin[n].key).set
              /\ lin[n].err = ErrNil => lin[n].value = LastSet(lin, n - 1, lin[n].key).value
    /\ dagGot.op = "Get" =>
          /\ dagGot.err = ErrKeyNotFound <=> ~dagGot.present
          /\ dagGot.err = ErrNil => dagGot.value = dagItems[dagGot.key]


\* the scheduler's step from the end of a wave to its next scan
Boundary == pc = "wave" /\ (wave' # wave \/ pc' # "wave")

\* C16: when the scheduler scans after a wave, every node launched in that
\* wave has finished its callback and its completion bookkeeping, and no
\* node of the wave is still executing.
C16_Barrier ==
    [][Boundary =>
          \A i \in DOMAIN g :
              /\ ~Executing(i)
              /\ g[i].at = "end" => (Finished(i) /\ Nodes[i] \in completed)]_vars

\* one node's execution in full: the before-each hooks in registration
\* order, the callback, the after-each hooks in registration order, the mark
Bracket ==
    [k \in 1..BeforeEachFns |-> <<"before", k>>] \o << <<"fn", 0>> >>
        \o [k \in 1..AfterEachFns |-> <<"after", k>>] \o << <<"completed", 0>> >>
IsPrefix(a, b) == Len(a) <= Len(b) /\ SubSeq(b, 1, Len(a)) = a

\* C17: the events of a node's execution are, in this order, every
\* before-each hook, the callback, every after-each hook and the mark as
\* completed: always a prefix of that sequence while the node executes, and
\* the whole of it once its goroutine has ended.
C17_Bracketed ==
    \A i \in DOMAIN log :
        /\ IsPrefix(log[i], Bracket)
        /\ g[i].at = "end" => log[i] = Bracket

\* no eligible node object that is not completed has in-degree zero, and some
\* eligible identifier is not completed
Stuck ==
    /\ requiredNodes \ completed # {}
    /\ \A i \in DOMAIN Nodes :
          Nodes[i] \in requiredNodes \ completed => inDegree[Nodes[i]] # 0

\* C18: a scan that finds the run stuck ends it with the deadlock report of
\* exactly the eligible identifiers not completed; it launches no node and
\* no teardown hook has run or runs afterwards, nothing else happens in the
\* run, and every eligible node outside the report has been executed.
C18_ResidualCycle ==
    [][/\ ((pc = "scan" \/ Boundary) /\ Stuck) =>
              /\ pc' = "fatal"
              /\ result'.err = ErrDeadlock
              /\ result'.remaining = requiredNodes \ completed
              /\ \A i \in DOMAIN g' : g'[i].at = "idle"
              /\ ran' = ran /\ wave' = wave
              /\ tearDownCalls' = <<>>
              /\ \A i \in DOMAIN Nodes :
                    Nodes[i] \in requiredNodes \cap completed => ran[i] >= 1
       /\ pc = "fatal" => UNCHANGED vars]_vars

\* C18 witness: a run over distinct identifiers has executed a node and then
\* stopped with the deadlock report, teardown hooks being registered
C18_Witness ==
    /\ pc = "fatal" /\ result.err = ErrDeadlock
    /\ Distinct(Nodes) /\ ~Acyclic(Edges)
    /\ completed # {} /\ result.remaining = requiredNodes \ completed
    /\ TearDownFns > 0

\* the goroutine of node object i is inside a hook or the callback
InUserCode(at) == at \in {"before", "fn", "infn", "after"}

\* C19: during the waves the completed set and the in-degree map change
\* only in a step of the goroutine that holds completedMux, and a goroutine
\* that is in a before-each hook, a callback or an after-each hook does not
\* hold it; the holder is in its bookkeeping.
C19_LockDiscipline ==
    [][/\ (pc = "wave" /\ pc' = "wave" /\ (completed' # completed \/ inDegree' # inDegree)) =>
              /\ completedMux # 0
              /\ g[completedMux].at = "locked"
              /\ \A i \in DOMAIN g : i # completedMux => g'[i] = g[i]
       /\ \A i \in DOMAIN g' : InUserCode(g'[i].at) => completedMux' # i
       /\ completedMux' # 0 => (pc' = "wave" /\ g'[completedMux'].at = "locked")]_vars

\* C19 witness: one goroutine holds completedMux while another of the same
\* wave is inside its callback
C19_Witness ==
    /\ completedMux # 0
    /\ \E i \in DOMAIN g : i # completedMux /\ g[i].at = "infn"

\* C20: RunTo(id) with id registered computes as eligible exactly id and the
\* identifiers from which id is reachable, on every graph, one with a cycle
\* included, and leaves nodes and edges as they were.
C20_CollectDependencies ==
    [][\A id \in IDs :
          (RunTo(id) /\ Known(id)) =>
              /\ requiredNodes' = Ancestors(Edges, id)
              /\ Nodes' = Nodes /\ Edges' = Edges]_vars

\* C20 witness: RunTo on a graph with a cycle has collected two identifiers
\* and left a registered one out
C20_Witness ==
    /\ run.mode = "RunTo" /\ Known(run.target)
    /\ ~Acyclic(Edges)
    /\ Cardinality(requiredNodes) = 2
    /\ NodeIDs(Nodes) \ requiredNodes # {}
    /\ requiredNodes = Ancestors(Edges, run.target)


\* C21: on every graph built, AddEdge(X, X) for a registered X returns the
\* cycle error, with no edge list and the edges as they were, so that the
\* same call repeated meets the same graph and returns the same; a target X
\* after other targets of X is refused too, and no stored edge is a
\* self-loop.
C21_SelfLoopRejected ==
    /\ pc = "build" =>
          \A x \in IDs :
              Known(x) =>
                  /\ LET r == AddEdgeResult(Nodes, Edges, x, <<x>>)
                     IN  /\ r.err = ErrCycle /\ r.edges = <<>> /\ r.Edges = Edges
                         /\ AddEdgeResult(Nodes, r.Edges, x, <<x>>) = r
                  /\ \A y \in IDs :
                        LET r == AddEdgeResult(Nodes, Edges, x, <<y, x>>)
                        IN  /\ r.err # ErrNil
                            /\ [Left |-> x, Right |-> x] \notin EdgeSet(r.Edges)
    /\ \A e \in EdgeSet(Edges) : e.Left # e.Right

\* C21 witness: with one identifier registered, where every call that gets
\* past the lookups is a self-loop, a call has returned the cycle error
C21_Witness ==
    /\ result.op = "AddEdge" /\ result.err = ErrCycle
    /\ Cardinality(NodeIDs(Nodes)) = 1 /\ Edges = <<>>


\* C25: the edge list never holds the same (left, right) pair twice: on every
\* graph built, AddEdge of a stored edge returns the cycle error and leaves
\* the edges as they were, a call that names a target twice stores it once,
\* and no in-degree of a run exceeds the number of distinct identifiers with
\* an edge into the node.
C25_NoDuplicateEdge ==
    /\ \A j, k \in DOMAIN Edges : j # k => Edges[j] # Edges[k]
    /\ pc = "build" =>
          /\ \A e \in EdgeSet(Edges) :
                LET r == AddEdgeResult(Nodes, Edges, e.Left, <<e.Right>>)
                IN  r.err = ErrCycle /\ r.Edges = Edges
          /\ \A from, to \in IDs :
                LET r == AddEdgeResult(Nodes, Edges, from, <<to, to>>)
                    n == Cardinality({k \in DOMAIN r.Edges :
                                         r.Edges[k] = [Left |-> from, Right |-> to]})
                IN  r.err # ErrNil /\ n <= 1
    /\ (Running /\ pc = "scan") =>
          \A id \in DOMAIN inDegree :
              inDegree[id] <= Cardinality({e.Left : e \in {x \in EdgeSet(Edges) : x.Right = id}})

\* C25 witness: a call with two targets has stored its first edge on a graph
\* with an edge and met the cycle error at its second target, as a call that
\* names its target twice does
C25_Witness ==
    /\ result.op = "AddEdge" /\ result.err = ErrCycle /\ result.appended = 1
    /\ Len(Edges) = 2 /\ Distinct(Nodes)


\* the goroutine of node object i was launched in the wave in progress
Launched(i) == pc = "wave" /\ g[i].at # "idle"

\* C22: in RunTo(X) on a graph with distinct identifiers and no cycle, once
\* X has been launched every other identifier of the closure is completed,
\* its execution finished, and no other node is in a wave with X; once X is
\* completed no wave follows, only the teardown hooks; and the loop is not
\* left before X is completed.
C22_TargetLast ==
    (run.mode = "RunTo" /\ Known(run.target) /\ Distinct(Nodes) /\ Acyclic(Edges)) =>
        \A i \in DOMAIN g :
            Nodes[i] = run.target =>
                /\ (Launched(i) \/ Started(i)) =>
                      /\ requiredNodes \ {run.target} \subseteq completed
                      /\ \A j \in DOMAIN g \ {i} :
                            /\ ~Launched(j) /\ ~Executing(j)
                            /\ Nodes[j] \in requiredNodes => Finished(j)
                /\ run.target \in completed =>
                      \/ pc = "wave" /\ g[i].at = "end"
                      \/ pc \in {"teardown", "done"}
                /\ pc \in {"teardown", "done"} => (run.target \in completed /\ Finished(i))

\* C22 witness: RunTo on a target with a dependency, in a graph with a node
\* outside the closure, has ended after its teardown hook
C22_Witness ==
    /\ run.mode = "RunTo" /\ Known(run.target) /\ Distinct(Nodes) /\ Acyclic(Edges)
    /\ Cardinality(requiredNodes) = 2 /\ NodeIDs(Nodes) # requiredNodes
    /\ pc = "done" /\ tearDownCalls # <<>> /\ wave = 2


\* the eligible identifiers with a stored edge into id
EligibleDeps(id) == {e.Left : e \in {x \in EdgeSet(Edges) : x.Right = id /\ x.Left \in requiredNodes}}
\* the number of edges of the longest chain of eligible dependencies that
\* ends at id, followed for at most fuel edges
RECURSIVE Chain(_, _)
Chain(id, fuel) ==
    IF fuel = 0 \/ EligibleDeps(id) = {} THEN 0
    ELSE LET L == {Chain(d, fuel - 1) : d \in EligibleDeps(id)}
         IN  1 + CHOOSE m \in L : \A n \in L : n <= m
\* between two waves: before the first scan, or with no goroutine of the wave left
AtBoundary == pc = "scan" \/ (pc = "wave" /\ \A i \in DOMAIN g : ~Executing(i))

\* C23: in a run over distinct identifiers every in-degree is >= 0; between
\* two waves the in-degree of an eligible identifier is the number of stored
\* edges into it from eligible identifiers not completed; a wave holds every
\* eligible node that had no eligible dependency left when it was launched
\* and no other; and a node is launched in the wave whose number is the
\* length of its longest dependency chain, counted in nodes.
C23_InDegree ==
    (Running /\ Distinct(Nodes) /\ pc \in {"setup", "scan", "wave", "teardown", "done"}) =>
        /\ \A id \in DOMAIN inDegree : inDegree[id] >= 0
        /\ AtBoundary =>
              \A id \in requiredNodes :
                  inDegree[id] = Cardinality({k \in DOMAIN Edges :
                                     /\ Edges[k].Right = id
                                     /\ Edges[k].Left \in requiredNodes \ completed})
        /\ pc = "wave" =>
              LET inWave == {Nodes[j] : j \in {x \in DOMAIN g : Launched(x)}}
              IN  \A i \in DOMAIN g :
                      /\ Launched(i) =>
                            /\ Nodes[i] \in requiredNodes
                            /\ EligibleDeps(Nodes[i]) \subseteq completed
                            /\ wave = Chain(Nodes[i], NumIDs) + 1
                      /\ (~Launched(i) /\ Nodes[i] \in requiredNodes \ completed) =>
                            EligibleDeps(Nodes[i]) \ completed # {}
                               \/ EligibleDeps(Nodes[i]) \cap inWave # {}


\* C24: a run whose callbacks all return never launches more waves than it
\* has eligible identifiers, and ends: it reaches its normal end or the
\* deadlock report, on every graph, one with a cycle or with duplicate
\* identifiers included.
C24_Terminates ==
    /\ [](aborted = {} => wave <= Cardinality(requiredNodes))
    /\ (Running /\ aborted = {}) ~> (pc \in {"done", "fatal"} \/ aborted # {})

\* C24 witness: a run of three identifiers in a chain, no callback aborted,
\* has ended after three waves
C24_Witness ==
    /\ Running /\ aborted = {} /\ pc = "done"
    /\ Cardinality(requiredNodes) = 3 /\ wave = 3

=============================================================================
